---- MODULE Spec2Model ----
(***************************************************************************)
(* Model of the expert directory search component                         *)
(* (src/src/components/KeywordSearchApp2.tsx): the one-time load of the   *)
(* record set with its fallback, the derived statistics, and the search   *)
(* handlers.                                                               *)
(*                                                                         *)
(* A JavaScript string is a sequence of one-character strings, so that    *)
(* trim, toLowerCase, includes and startsWith are computed, not assumed.  *)
(***************************************************************************)
EXTENDS Integers, Sequences, FiniteSets, TLC

VARIABLES
  data,            \* useState<Person[]>([])
  isLoading,       \* useState<boolean>(true)
  searchTerm,      \* useState<string>('')
  searchResults,   \* useState<Person[]>([])
  error,           \* useState<string | null>(null)
  searchPerformed, \* useState<boolean>(false)
  stats,           \* useState<DirectoryStats>
  pc,              \* where loadData is suspended: "fetch", "text" or "done"
  response,        \* the Response the fetch resolved with
  results,         \* results.data, the rows Papa.parse handed to complete
  loadPath,        \* history: the path on which loadData settled
  lastEvent,       \* history: the last user event handled
  resubmitted      \* history: the last two user events were both submits

vars == <<data, isLoading, searchTerm, searchResults, error, searchPerformed,
          stats, pc, response, results, loadPath, lastEvent,
          resubmitted>>

appState == <<data, isLoading, searchTerm, searchResults, error,
              searchPerformed, stats>>

-----------------------------------------------------------------------------
(* Bounds *)

\* The longest row sequence the parser hands to the complete callback.
MaxRows == 3

-----------------------------------------------------------------------------
(* Strings *)

UpperCase == <<"A","B","C","D","E","F","G","H","I","J","K","L","M",
               "N","O","P","Q","R","S","T","U","V","W","X","Y","Z">>
LowerCase == <<"a","b","c","d","e","f","g","h","i","j","k","l","m",
               "n","o","p","q","r","s","t","u","v","w","x","y","z">>

WhiteSpace == {" ", "\t", "\n"}

toLowerCaseChar(c) ==
  IF \E i \in DOMAIN UpperCase : UpperCase[i] = c
  THEN LowerCase[CHOOSE i \in DOMAIN UpperCase : UpperCase[i] = c]
  ELSE c

\* String.prototype.toLowerCase
toLowerCase(s) == [i \in DOMAIN s |-> toLowerCaseChar(s[i])]

\* String.prototype.trim: drops the white space at both ends
trim(s) ==
  LET kept == {i \in DOMAIN s : s[i] \notin WhiteSpace}
  IN IF kept = {} THEN <<>>
     ELSE LET first == CHOOSE i \in kept : \A j \in kept : i <= j
              last  == CHOOSE i \in kept : \A j \in kept : j <= i
          IN SubSeq(s, first, last)

\* String.prototype.includes
includes(s, q) ==
  \E k \in 0..(Len(s) - Len(q)) : SubSeq(s, k + 1, k + Len(q)) = q

\* String.prototype.startsWith
startsWith(s, p) == Len(p) <= Len(s) /\ SubSeq(s, 1, Len(p)) = p

-----------------------------------------------------------------------------
(* Person records *)

Columns == {"name", "affiliation", "keyword1", "keyword2", "keyword3"}

\* row.<column> || '' : an absent (undefined) or empty column gives ''
columnOrEmptyKeepsUndefined(row, column) ==
  IF column \in DOMAIN row THEN row[column]
  ELSE <<"u","n","d","e","f","i","n","e","d">>

columnOrEmpty(row, column) ==
  IF column \in DOMAIN row /\ row[column] # <<>> THEN row[column] ELSE <<>>

\* the object literal of results.data.map
toPerson(row) ==
  [name        |-> columnOrEmpty(row, "name"),
   affiliation |-> columnOrEmpty(row, "affiliation"),
   keyword1    |-> columnOrEmpty(row, "keyword1"),
   keyword2    |-> columnOrEmpty(row, "keyword2"),
   keyword3    |-> columnOrEmpty(row, "keyword3")]

\* results.data.map(...)
parsedData(rows) == [i \in DOMAIN rows |-> toPerson(rows[i])]

-----------------------------------------------------------------------------
(* The fallback records of the catch block *)

sampleData ==
  <<
  [name |-> <<"J","o","h","n"," ","S","m","i","t","h">>,
   affiliation |-> <<"U","n","i","v","e","r","s","i","t","y"," ","o","f"," ","T","e","c","h","n","o","l","o","g","y">>,
   keyword1 |-> <<"m","a","c","h","i","n","e"," ","l","e","a","r","n","i","n","g">>,
   keyword2 |-> <<"n","e","u","r","a","l"," ","n","e","t","w","o","r","k","s">>,
   keyword3 |-> <<"c","o","m","p","u","t","e","r"," ","v","i","s","i","o","n">>],
  [name |-> <<"M","a","r","i","a"," ","G","a","r","c","i","a">>,
   affiliation |-> <<"R","e","s","e","a","r","c","h"," ","I","n","s","t","i","t","u","t","e">>,
   keyword1 |-> <<"d","a","t","a"," ","m","i","n","i","n","g">>,
   keyword2 |-> <<"s","t","a","t","i","s","t","i","c","s">>,
   keyword3 |-> <<"b","i","g"," ","d","a","t","a">>],
  [name |-> <<"W","e","i"," ","Z","h","a","n","g">>,
   affiliation |-> <<"T","e","c","h"," ","S","o","l","u","t","i","o","n","s"," ","I","n","c">>,
   keyword1 |-> <<"c","l","o","u","d"," ","c","o","m","p","u","t","i","n","g">>,
   keyword2 |-> <<"d","i","s","t","r","i","b","u","t","e","d"," ","s","y","s","t","e","m","s">>,
   keyword3 |-> <<"s","c","a","l","a","b","i","l","i","t","y">>],
  [name |-> <<"A","i","s","h","a"," ","J","o","h","n","s","o","n">>,
   affiliation |-> <<"G","l","o","b","a","l"," ","A","n","a","l","y","t","i","c","s">>,
   keyword1 |-> <<"d","a","t","a"," ","v","i","s","u","a","l","i","z","a","t","i","o","n">>,
   keyword2 |-> <<"b","u","s","i","n","e","s","s"," ","i","n","t","e","l","l","i","g","e","n","c","e">>,
   keyword3 |-> <<"m","a","c","h","i","n","e"," ","l","e","a","r","n","i","n","g">>],
  [name |-> <<"C","a","r","l","o","s"," ","R","o","d","r","i","g","u","e","z">>,
   affiliation |-> <<"U","n","i","v","e","r","s","i","t","y"," ","o","f"," ","S","c","i","e","n","c","e">>,
   keyword1 |-> <<"r","o","b","o","t","i","c","s">>,
   keyword2 |-> <<"c","o","n","t","r","o","l"," ","s","y","s","t","e","m","s">>,
   keyword3 |-> <<"a","u","t","o","m","a","t","i","o","n">>],
  [name |-> <<"F","a","t","i","m","a"," ","A","l","i">>,
   affiliation |-> <<"H","e","a","l","t","h"," ","R","e","s","e","a","r","c","h"," ","C","e","n","t","e","r">>,
   keyword1 |-> <<"b","i","o","i","n","f","o","r","m","a","t","i","c","s">>,
   keyword2 |-> <<"g","e","n","o","m","i","c","s">>,
   keyword3 |-> <<"m","e","d","i","c","a","l"," ","i","m","a","g","i","n","g">>],
  [name |-> <<"D","a","v","i","d"," ","W","i","l","s","o","n">>,
   affiliation |-> <<"I","n","n","o","v","a","t","i","o","n"," ","L","a","b","s">>,
   keyword1 |-> <<"v","i","r","t","u","a","l"," ","r","e","a","l","i","t","y">>,
   keyword2 |-> <<"a","u","g","m","e","n","t","e","d"," ","r","e","a","l","i","t","y">>,
   keyword3 |-> <<"h","u","m","a","n","-","c","o","m","p","u","t","e","r"," ","i","n","t","e","r","a","c","t","i","o","n">>],
  [name |-> <<"E","m","i","l","y"," ","C","h","e","n">>,
   affiliation |-> <<"T","e","c","h"," ","S","o","l","u","t","i","o","n","s"," ","I","n","c">>,
   keyword1 |-> <<"w","e","b"," ","d","e","v","e","l","o","p","m","e","n","t">>,
   keyword2 |-> <<"u","s","e","r"," ","e","x","p","e","r","i","e","n","c","e">>,
   keyword3 |-> <<"a","c","c","e","s","s","i","b","i","l","i","t","y">>],
  [name |-> <<"J","a","m","e","s"," ","B","r","o","w","n">>,
   affiliation |-> <<"U","n","i","v","e","r","s","i","t","y"," ","o","f"," ","T","e","c","h","n","o","l","o","g","y">>,
   keyword1 |-> <<"a","r","t","i","f","i","c","i","a","l"," ","i","n","t","e","l","l","i","g","e","n","c","e">>,
   keyword2 |-> <<"m","a","c","h","i","n","e"," ","l","e","a","r","n","i","n","g">>,
   keyword3 |-> <<"d","e","e","p"," ","l","e","a","r","n","i","n","g">>],
  [name |-> <<"S","o","p","h","i","a"," ","K","u","m","a","r">>,
   affiliation |-> <<"D","a","t","a"," ","S","c","i","e","n","c","e"," ","C","e","n","t","e","r">>,
   keyword1 |-> <<"s","t","a","t","i","s","t","i","c","s">>,
   keyword2 |-> <<"n","a","t","u","r","a","l"," ","l","a","n","g","u","a","g","e"," ","p","r","o","c","e","s","s","i","n","g">>,
   keyword3 |-> <<"s","e","n","t","i","m","e","n","t"," ","a","n","a","l","y","s","i","s">>]
  >>

-----------------------------------------------------------------------------
(* Statistics of the complete callback *)

Range(s) == {s[i] : i \in DOMAIN s}

\* new Set(personData.map(p => p.name)).size
uniqueExpertsCountsRows(personData) == Len(personData)

uniqueExperts(personData) ==
  Cardinality(Range([i \in DOMAIN personData |-> personData[i].name]))

\* [...keyword1s, ...keyword2s, ...keyword3s].filter(keyword => keyword)
allKeywords(personData) ==
  SelectSeq([i \in DOMAIN personData |-> personData[i].keyword1]
            \o [i \in DOMAIN personData |-> personData[i].keyword2]
            \o [i \in DOMAIN personData |-> personData[i].keyword3],
            LAMBDA keyword : keyword # <<>>)

uniqueKeywords(personData) == Cardinality(Range(allKeywords(personData)))

uniqueAffiliations(personData) ==
  Cardinality(Range([i \in DOMAIN personData |-> personData[i].affiliation]))

computedStats(personData) ==
  [expertCount      |-> uniqueExperts(personData),
   expertiseCount   |-> uniqueKeywords(personData),
   affiliationCount |-> uniqueAffiliations(personData)]

\* the literal of the catch block
sampleStats == [expertCount |-> 10, expertiseCount |-> 24, affiliationCount |-> 7]

-----------------------------------------------------------------------------
(* The environment of loadData: fetch, Response.text() and Papa.parse *)

DoctypeHtml == <<"<","!","D","O","C","T","Y","P","E"," ","h","t","m","l",">">>

HtmlPage       == DoctypeHtml \o <<"<","p",">">>
HtmlPagePadded == <<"\n", " ">> \o DoctypeHtml
HtmlPageLower  == <<"<","!","d","o","c","t","y","p","e"," ","h","t","m","l",">","\n","<","p",">">>
HtmlTagPage    == <<"<","h","t","m","l",">","\n","<","p",">">>
\* stands for every text that is tabular
CsvText        == <<"n","a","m","e",",","k","e","y","w","o","r","d","1","\n">>

\* the texts Response.text() may resolve with
Bodies == {HtmlPage, HtmlPagePadded, HtmlPageLower, HtmlTagPage, CsvText}

\* the statuses of a response that is not ok
BadStatuses == {"404", "500"}

Responses ==
  {[ok |-> FALSE, status |-> s, body |-> <<>>] : s \in BadStatuses}
  \cup {[ok |-> TRUE, status |-> "200", body |-> b] : b \in Bodies}

NoResponse == [ok |-> FALSE, status |-> "", body |-> <<>>]

\* error.message of a rejected fetch or text()
RejectionMessages == {<<"Failed to fetch">>}

\* rows of results.data (header: true keys every row by the header line)
Row1 == [name |-> <<"A","l">>, affiliation |-> <<"E","t","h">>,
         keyword1 |-> <<"i","c","e">>, keyword2 |-> <<>>, keyword3 |-> <<"A","l">>]
Row2 == [name |-> <<"A","l">>, keyword1 |-> <<"i","c","e">>]
Row3 == [name |-> <<>>, affiliation |-> <<"e","t","h">>,
         keyword2 |-> <<"I","c","e">>, email |-> <<"x">>]
Row4 == [html |-> <<"<","p",">">>]
Row5 == [name |-> <<"B","o">>, affiliation |-> <<"E","t","h">>, keyword1 |-> <<>>,
         keyword2 |-> <<>>, keyword3 |-> <<"a","l","g","a","e">>]

RowPool == {Row1, Row2, Row3, Row4, Row5}

RowSeqs == UNION {[1..n -> RowPool] : n \in 0..MaxRows}

\* Papa.parse(csvText, {header: true, skipEmptyLines: true}): the first line
\* names the columns, every further line is one row keyed by them
papaRows(csvText) ==
  CASE csvText = HtmlPageLower ->
         {<< ("<!doctype html>" :> <<"<","p",">">>) >>}
    [] csvText = HtmlTagPage ->
         {<< ("<html>" :> <<"<","p",">">>) >>}
    [] OTHER -> RowSeqs

-----------------------------------------------------------------------------
(* loadData *)

NullError == [isNull |-> TRUE, message |-> <<>>]

Message(parts) == [isNull |-> FALSE, message |-> parts]

Init ==
  /\ data = <<>>
  /\ isLoading = TRUE
  /\ searchTerm = <<>>
  /\ searchResults = <<>>
  /\ error = NullError
  /\ searchPerformed = FALSE
  /\ stats = [expertCount |-> 0, expertiseCount |-> 0, affiliationCount |-> 0]
  /\ pc = "fetch"
  /\ response = NoResponse
  /\ results = <<>>
  /\ loadPath = "pending"
  /\ lastEvent = "none"
  /\ resubmitted = FALSE

\* catch (error: any) { ... }
catchBlockKeepsData(message) ==
  /\ stats' = sampleStats
  /\ error' = Message(<<"Note: Using sample data. Couldn't load CSV: ">> \o message)
  /\ isLoading' = FALSE
  /\ UNCHANGED data

catchBlock(message) ==
  /\ data' = sampleData
  /\ stats' = sampleStats
  /\ error' = Message(<<"Note: Using sample data. Couldn't load CSV: ">> \o message)
  /\ isLoading' = FALSE

\* complete: (results) => { ... }
complete(rows) ==
  LET personData == parsedData(rows)
  IN /\ data' = personData
     /\ stats' = computedStats(personData)
     /\ isLoading' = FALSE
     /\ UNCHANGED error

\* error: (error: Error) => { ... }
parseErrorKeepsLoading ==
  /\ error' = Message(<<"Failed to parse CSV data. Please check the file format.">>)
  /\ UNCHANGED <<isLoading, data, stats>>

parseError ==
  /\ error' = Message(<<"Failed to parse CSV data. Please check the file format.">>)
  /\ isLoading' = FALSE
  /\ UNCHANGED <<data, stats>>

\* await fetch(csvFilePath) rejects
FetchRejects ==
  /\ pc = "fetch"
  /\ \E m \in RejectionMessages : catchBlock(m)
  /\ pc' = "done"
  /\ loadPath' = "fetchRejected"
  /\ UNCHANGED <<searchTerm, searchResults, searchPerformed, response, results, lastEvent,
               resubmitted>>

\* await fetch(csvFilePath) resolves; if (!response.ok) throw ...
FetchResolves ==
  /\ pc = "fetch"
  /\ \E r \in Responses :
       /\ response' = r
       /\ IF ~r.ok
          THEN /\ catchBlock(<<"HTTP error! Status: ", r.status>>)
               /\ pc' = "done"
               /\ loadPath' = "badStatus"
          ELSE /\ pc' = "text"
               /\ UNCHANGED <<data, stats, error, isLoading, loadPath>>
  /\ UNCHANGED <<searchTerm, searchResults, searchPerformed, results, lastEvent,
               resubmitted>>

\* await response.text() rejects
TextRejects ==
  /\ pc = "text"
  /\ \E m \in RejectionMessages : catchBlock(m)
  /\ pc' = "done"
  /\ loadPath' = "textRejected"
  /\ UNCHANGED <<searchTerm, searchResults, searchPerformed, response, results, lastEvent,
               resubmitted>>

\* csvText.trim().startsWith('<!DOCTYPE html>')
isHtml(csvText) == startsWith(trim(csvText), DoctypeHtml)

\* await response.text() resolves; the HTML check; Papa.parse and its callbacks
TextResolves ==
  /\ pc = "text"
  /\ LET csvText == response.body
     IN IF isHtml(csvText)
        THEN /\ catchBlock(<<"Received HTML instead of CSV data. Check the file path.">>)
             /\ loadPath' = "html"
             /\ UNCHANGED results
        ELSE \/ \E rows \in papaRows(csvText) :
                  /\ complete(rows)
                  /\ results' = rows
                  /\ loadPath' = "complete"
             \/ /\ parseError
                /\ loadPath' = "parseError"
                /\ UNCHANGED results
  /\ pc' = "done"
  /\ UNCHANGED <<searchTerm, searchResults, searchPerformed, response, lastEvent,
               resubmitted>>

-----------------------------------------------------------------------------
(* The search handlers, rendered once isLoading is false *)

Str_al    == <<"a","l">>
Str_AL    == <<" ","A","L"," ">>
Str_eth   == <<"e","t","h">>
Str_Ice   == <<"I","c","e">>
Str_lg    == <<"l","g">>
Str_bo    == <<"b","o">>
Str_zzz   == <<"z","z","z">>
Str_ml    == <<"m","a","c","h","i","n","e"," ","L","e","a","r","n","i","n","g">>
Str_blank == <<" ","\t">>
Str_uot   == <<"U","n","i","v","e","r","s","i","t","y"," ","o","f"," ",
               "T","e","c","h","n","o","l","o","g","y">>

\* the values e.target.value takes
Inputs == {<<>>, Str_blank, Str_al, Str_AL, Str_eth, Str_Ice, Str_lg, Str_bo,
           Str_zzz, Str_ml, Str_uot}

\* the values e.key takes
Keys == {"Enter", "a"}

\* the predicate of data.filter
matchesWithoutAffiliation(person, normalizedSearchTerm) ==
  \/ includes(toLowerCase(person.name), normalizedSearchTerm)
  \/ includes(toLowerCase(person.keyword1), normalizedSearchTerm)
  \/ includes(toLowerCase(person.keyword2), normalizedSearchTerm)
  \/ includes(toLowerCase(person.keyword3), normalizedSearchTerm)

matches(person, normalizedSearchTerm) ==
  \/ includes(toLowerCase(person.name), normalizedSearchTerm)
  \/ includes(toLowerCase(person.affiliation), normalizedSearchTerm)
  \/ includes(toLowerCase(person.keyword1), normalizedSearchTerm)
  \/ includes(toLowerCase(person.keyword2), normalizedSearchTerm)
  \/ includes(toLowerCase(person.keyword3), normalizedSearchTerm)

\* const handleSearch = () => { ... }
handleSearchWithoutTrim ==
  IF searchTerm = <<>>
  THEN /\ searchResults' = <<>>
       /\ searchPerformed' = FALSE
  ELSE LET normalizedSearchTerm == trim(toLowerCase(searchTerm))
       IN /\ searchResults' =
               SelectSeq(data, LAMBDA person : matches(person, normalizedSearchTerm))
          /\ searchPerformed' = TRUE

handleSearchFlagsOnlyHits ==
  IF trim(searchTerm) = <<>>
  THEN /\ searchResults' = <<>>
       /\ searchPerformed' = FALSE
  ELSE LET normalizedSearchTerm == trim(toLowerCase(searchTerm))
           hits == SelectSeq(data, LAMBDA person : matches(person, normalizedSearchTerm))
       IN /\ searchResults' = hits
          /\ searchPerformed' = (hits # <<>>)

handleSearchAppends ==
  IF trim(searchTerm) = <<>>
  THEN /\ searchResults' = <<>>
       /\ searchPerformed' = FALSE
  ELSE LET normalizedSearchTerm == trim(toLowerCase(searchTerm))
       IN /\ searchResults' = searchResults \o
               SelectSeq(data, LAMBDA person : matches(person, normalizedSearchTerm))
          /\ searchPerformed' = TRUE

handleSearchWithoutFold ==
  IF trim(searchTerm) = <<>>
  THEN /\ searchResults' = <<>>
       /\ searchPerformed' = FALSE
  ELSE LET normalizedSearchTerm == trim(searchTerm)
       IN /\ searchResults' =
               SelectSeq(data, LAMBDA person : matches(person, normalizedSearchTerm))
          /\ searchPerformed' = TRUE

handleSearch ==
  IF trim(searchTerm) = <<>>
  THEN /\ searchResults' = <<>>
       /\ searchPerformed' = FALSE
  ELSE LET normalizedSearchTerm == trim(toLowerCase(searchTerm))
       IN /\ searchResults' =
               SelectSeq(data, LAMBDA person : matches(person, normalizedSearchTerm))
          /\ searchPerformed' = TRUE

\* onChange={handleSearchChange}
HandleSearchChangeKeepsResults ==
  /\ ~isLoading
  /\ \E value \in Inputs :
       /\ searchTerm' = value
       /\ IF value = <<>>
          THEN /\ searchPerformed' = FALSE
               /\ UNCHANGED searchResults
          ELSE UNCHANGED <<searchResults, searchPerformed>>
  /\ lastEvent' = "change"
  /\ resubmitted' = FALSE
  /\ UNCHANGED <<data, isLoading, error, stats, pc, response, results, loadPath>>

HandleSearchChange ==
  /\ ~isLoading
  /\ \E value \in Inputs :
       /\ searchTerm' = value
       /\ IF value = <<>>
          THEN /\ searchResults' = <<>>
               /\ searchPerformed' = FALSE
          ELSE UNCHANGED <<searchResults, searchPerformed>>
  /\ lastEvent' = "change"
  /\ resubmitted' = FALSE
  /\ UNCHANGED <<data, isLoading, error, stats, pc, response, results, loadPath>>

\* onClick={handleSearch}
HandleSearchClickRecomputesStats ==
  /\ ~isLoading
  /\ handleSearch
  /\ stats' = computedStats(searchResults')
  /\ lastEvent' = "click"
  /\ resubmitted' = (lastEvent \in {"click", "enter"})
  /\ UNCHANGED <<data, isLoading, searchTerm, error, pc, response, results, loadPath>>

HandleSearchClick ==
  /\ ~isLoading
  /\ handleSearch
  /\ lastEvent' = "click"
  /\ resubmitted' = (lastEvent \in {"click", "enter"})
  /\ UNCHANGED <<data, isLoading, searchTerm, error, stats, pc, response, results, loadPath>>

\* onKeyPress={handleKeyPress}
HandleKeyPressWhileLoading ==
  /\ \E key \in Keys :
       IF key = "Enter"
       THEN /\ handleSearch
            /\ lastEvent' = "enter"
            /\ resubmitted' = (lastEvent \in {"click", "enter"})
       ELSE /\ UNCHANGED <<searchResults, searchPerformed>>
            /\ lastEvent' = "key"
            /\ resubmitted' = FALSE
  /\ UNCHANGED <<data, isLoading, searchTerm, error, stats, pc, response, results, loadPath>>

HandleKeyPress ==
  /\ ~isLoading
  /\ \E key \in Keys :
       IF key = "Enter"
       THEN /\ handleSearch
            /\ lastEvent' = "enter"
            /\ resubmitted' = (lastEvent \in {"click", "enter"})
       ELSE /\ UNCHANGED <<searchResults, searchPerformed>>
            /\ lastEvent' = "key"
            /\ resubmitted' = FALSE
  /\ UNCHANGED <<data, isLoading, searchTerm, error, stats, pc, response, results, loadPath>>

Next ==
  \/ FetchRejects
  \/ FetchResolves
  \/ TextRejects
  \/ TextResolves
  \/ HandleSearchChange
  \/ HandleSearchClick
  \/ HandleKeyPress

Spec == Init /\ [][Next]_vars

\* fetch and Response.text() settle; Papa.parse calls back synchronously
FairSpec ==
  /\ Spec
  /\ WF_vars(FetchRejects \/ FetchResolves)
  /\ WF_vars(TextRejects \/ TextResolves)

-----------------------------------------------------------------------------
(* Properties *)

Submitted == lastEvent \in {"click", "enter"}

FallbackPaths == {"fetchRejected", "badStatus", "textRejected", "html"}

NotePrefix == "Note: Using sample data. Couldn't load CSV: "

\* the number of distinct values of a sequence: its first occurrences
DistinctCount(s) ==
  Cardinality({i \in DOMAIN s : \A j \in 1..(i - 1) : s[j] # s[i]})

\* the number of distinct non-empty values of a sequence
DistinctNonEmptyCount(s) ==
  Cardinality({i \in DOMAIN s : s[i] # <<>> /\ \A j \in 1..(i - 1) : s[j] # s[i]})

ColumnOf(records, column) == [i \in DOMAIN records |-> records[i][column]]

KeywordsOf(records) ==
  ColumnOf(records, "keyword1") \o ColumnOf(records, "keyword2")
    \o ColumnOf(records, "keyword3")

\* q occurs in s between some two positions
IsSubstring(q, s) ==
  \E a \in 1..(Len(s) + 1) : \E b \in 0..Len(s) : SubSeq(s, a, b) = q

\* the predicate of the search: the folded, trimmed query occurs in a folded field
Hit(person, query) ==
  \E column \in Columns :
    IsSubstring(toLowerCase(trim(query)), toLowerCase(person[column]))

HitPositions(records, query) == {i \in DOMAIN records : Hit(records[i], query)}

\* found is records restricted to the hits, in the order of records
IsOrderedFilter(found, records, query) ==
  LET hits == HitPositions(records, query)
  IN /\ Len(found) = Cardinality(hits)
     /\ \A i \in hits : found[Cardinality({j \in hits : j <= i})] = records[i]

\* C1: when the fetch rejects or the response has a non-success status, the
\* load settles with the record set equal to the 10 fallback records in their
\* order, an error message that is not null and ends with the failure reason,
\* and isLoading false.
C1_FetchFailureFallsBack ==
  loadPath \in {"fetchRejected", "badStatus"} =>
    /\ pc = "done"
    /\ data = sampleData
    /\ Len(data) = 10
    /\ ~error.isNull
    /\ error.message[1] = NotePrefix
    /\ loadPath = "fetchRejected" =>
         SubSeq(error.message, 2, Len(error.message)) \in RejectionMessages
    /\ loadPath = "badStatus" =>
         /\ ~response.ok
         /\ SubSeq(error.message, 2, Len(error.message))
              = <<"HTTP error! Status: ", response.status>>
    /\ isLoading = FALSE

C1_Witness ==
  /\ loadPath = "badStatus"
  /\ response.status = "404"
  /\ data = sampleData
  /\ ~isLoading

\* C2: when the parser reports an error, the load settles with the 10-record
\* fallback set and a non-null message, never with an empty record set.
C2_ParseErrorFallsBack ==
  loadPath = "parseError" =>
    /\ data = sampleData
    /\ data # <<>>
    /\ ~error.isNull

\* the texts of Bodies that are markup and not tabular data
MarkupBodies == {HtmlPage, HtmlPagePadded, HtmlPageLower, HtmlTagPage}

\* C3: when the fetched text is a markup payload, whatever its leading text or
\* letter case, the load stores no records parsed from it: it settles with the
\* 10-record fallback set and a non-null message.
C3_MarkupFallsBack ==
  (pc = "done" /\ response.ok /\ response.body \in MarkupBodies) =>
    /\ data = sampleData
    /\ ~error.isNull

\* C4: after a submit of a non-blank query, searchResults is the
\* order-preserving filter of the record set by "lowercase(trim(query)) is a
\* substring of a lowercased field": all hits, no others, duplicates kept.
C4_SearchIsOrderedFilter ==
  (Submitted /\ trim(searchTerm) # <<>>) =>
    IsOrderedFilter(searchResults, data, searchTerm)

C4_Witness ==
  /\ lastEvent = "click"
  /\ searchTerm = Str_eth
  /\ results = <<Row1, Row2, Row1>>
  /\ searchResults = <<data[1], data[3]>>

\* C5: after a submit of a query whose trimmed value is empty, searchResults
\* is empty and searchPerformed is false.
C5_BlankSubmitClears ==
  (Submitted /\ trim(searchTerm) = <<>>) =>
    /\ searchResults = <<>>
    /\ searchPerformed = FALSE

C5_Witness ==
  /\ lastEvent = "click"
  /\ searchTerm = Str_blank
  /\ data # <<>>
  /\ searchResults = <<>>
  /\ ~searchPerformed

\* C6: a submit (click or Enter) of a non-blank query sets searchPerformed,
\* with empty results when nothing matches; a submit of a blank query leaves
\* it false; a key press other than Enter changes nothing.
C6_SubmitSetsPerformed ==
  [][/\ (Submitted' /\ trim(searchTerm') # <<>>) =>
          /\ searchPerformed'
          /\ (HitPositions(data', searchTerm') = {}) => searchResults' = <<>>
     /\ (Submitted' /\ trim(searchTerm') = <<>>) => ~searchPerformed'
     /\ (lastEvent' = "key") => UNCHANGED appState]_vars

C6_Witness ==
  /\ lastEvent = "enter"
  /\ searchTerm = Str_zzz
  /\ data # <<>>
  /\ searchResults = <<>>
  /\ searchPerformed

\* C7: after a load that ends on the fallback path the stats describe the 10
\* fallback records: 10 experts, the number of distinct affiliations, the
\* number of distinct non-empty keywords.
C7_FallbackStatsDescribeSample ==
  loadPath \in FallbackPaths =>
    /\ stats.expertCount = 10
    /\ stats.affiliationCount = DistinctCount(ColumnOf(sampleData, "affiliation"))
    /\ stats.expertiseCount = DistinctNonEmptyCount(KeywordsOf(sampleData))

\* C8: after a successful load the stats are the number of distinct names,
\* of distinct non-empty keywords over the three keyword fields, and of
\* distinct affiliations of the stored record set.
C8_StatsOfParsedData ==
  loadPath = "complete" =>
    /\ stats.expertCount = DistinctCount(ColumnOf(data, "name"))
    /\ stats.expertiseCount = DistinctNonEmptyCount(KeywordsOf(data))
    /\ stats.affiliationCount = DistinctCount(ColumnOf(data, "affiliation"))

C8_Witness ==
  /\ loadPath = "complete"
  /\ results = <<Row1, Row2>>
  /\ stats = [expertCount |-> 1, expertiseCount |-> 2, affiliationCount |-> 2]

\* C9: isLoading is true until the load settles, the load settles on every
\* path with isLoading false, and isLoading never becomes true again.
C9_LoadingUntilSettled ==
  /\ [](isLoading <=> pc # "done")
  /\ <>(~isLoading)
  /\ [][~isLoading => ~isLoading']_vars

C9_Witness ==
  /\ loadPath = "parseError"
  /\ pc = "done"
  /\ ~isLoading

\* C10: the record mapping gives one Person per parsed row, in the same
\* order, with exactly the five fields; a column absent or empty in the row
\* gives the empty string and other columns are dropped.
C10_OnePersonPerRow ==
  loadPath = "complete" =>
    /\ Len(data) = Len(results)
    /\ \A i \in DOMAIN results :
         /\ DOMAIN data[i] = Columns
         /\ \A column \in Columns :
              data[i][column] =
                IF column \in DOMAIN results[i] THEN results[i][column] ELSE <<>>

C10_Witness ==
  /\ loadPath = "complete"
  /\ results = <<Row3, Row2>>
  /\ data[1].name = <<>>
  /\ data[2].keyword3 = <<>>
  /\ data[1].keyword2 = <<"I","c","e">>

\* C11: a submit that follows a submit of the same query on the same record
\* set leaves searchResults and searchPerformed as the first submit left
\* them, and no submit modifies the record set.
C11_SearchIsIdempotent ==
  [][/\ (Submitted /\ Submitted' /\ searchTerm' = searchTerm) =>
          /\ searchResults' = searchResults
          /\ searchPerformed' = searchPerformed
     /\ Submitted' => data' = data]_vars

C11_Witness ==
  /\ resubmitted
  /\ lastEvent = "enter"
  /\ searchTerm = Str_al
  /\ results = <<Row1, Row3, Row5>>
  /\ searchResults = <<data[1], data[3]>>
  /\ searchPerformed

Str_JohnSmith  == <<"J","o","h","n"," ","S","m","i","t","h">>
Str_JamesBrown == <<"J","a","m","e","s"," ","B","r","o","w","n">>

\* the only field of person in which the folded query occurs is affiliation
HitOnlyThroughAffiliation(person, query) ==
  \A column \in Columns :
    IsSubstring(toLowerCase(trim(query)), toLowerCase(person[column]))
      <=> column = "affiliation"

\* C12: a submit of "University of Technology" against the 10 fallback
\* records returns the records of John Smith and James Brown, in that order,
\* both matched through the affiliation field, with searchPerformed true.
C12_UniversityOfTechnology ==
  (Submitted /\ searchTerm = Str_uot /\ data = sampleData) =>
    /\ Len(searchResults) = 2
    /\ searchResults[1].name = Str_JohnSmith
    /\ searchResults[2].name = Str_JamesBrown
    /\ \A k \in 1..2 : HitOnlyThroughAffiliation(searchResults[k], Str_uot)
    /\ searchPerformed

C12_Witness ==
  /\ lastEvent = "click"
  /\ searchTerm = Str_uot
  /\ loadPath = "fetchRejected"
  /\ searchResults = <<sampleData[1], sampleData[9]>>

\* C13: once the load has settled, every step leaves the record set, the
\* stats, error and isLoading as the load wrote them.
C13_LoadStateIsWriteOnce ==
  [][pc = "done" => UNCHANGED <<data, stats, error, isLoading>>]_vars

C13_Witness ==
  /\ lastEvent = "click"
  /\ loadPath = "complete"
  /\ searchTerm = Str_bo
  /\ results = <<Row1, Row5>>
  /\ searchResults = <<data[2]>>
  /\ stats = [expertCount |-> 2, expertiseCount |-> 3, affiliationCount |-> 1]

\* C14: whenever searchPerformed is true, searchResults is the filter of the
\* record set by the current searchTerm, the term the results heading shows.
C14_ResultsMatchShownTerm ==
  searchPerformed => IsOrderedFilter(searchResults, data, searchTerm)

\* C15: whenever searchPerformed is false searchResults is empty, and a change
\* of the input to the empty string leaves both reset.
C15_NotPerformedMeansNoResults ==
  /\ ~searchPerformed => searchResults = <<>>
  /\ (lastEvent = "change" /\ searchTerm = <<>>) =>
       (searchResults = <<>> /\ ~searchPerformed)

C15_Witness ==
  /\ lastEvent = "change"
  /\ searchTerm = <<>>
  /\ loadPath = "complete"
  /\ data # <<>>
  /\ searchResults = <<>>
  /\ ~searchPerformed

RECURSIVE IsSubsequence(_, _)
\* found can be obtained from records by dropping elements
IsSubsequence(found, records) ==
  IF found = <<>> THEN TRUE
  ELSE IF records = <<>> THEN FALSE
  ELSE IF Head(found) = Head(records)
       THEN IsSubsequence(Tail(found), Tail(records))
       ELSE IsSubsequence(found, Tail(records))

\* C16: while isLoading is true no search or typing event has been handled;
\* once it is false the input and the button take events, also when error is
\* set; searchResults is always an order-preserving subsequence of the record
\* set, and the record set is not replaced after an event has been handled.
C16_NoEventWhileLoading ==
  /\ [](isLoading =>
          /\ lastEvent = "none"
          /\ searchTerm = <<>>
          /\ searchResults = <<>>
          /\ ~searchPerformed)
  /\ [](~isLoading =>
          /\ ENABLED HandleSearchChange
          /\ ENABLED HandleSearchClick
          /\ ENABLED HandleKeyPress)
  /\ [](IsSubsequence(searchResults, data))
  /\ [][lastEvent # "none" => data' = data]_vars

C16_Witness ==
  /\ ~error.isNull
  /\ loadPath = "html"
  /\ lastEvent = "click"
  /\ searchTerm = Str_ml
  /\ Len(searchResults) = 3
  /\ IsSubsequence(searchResults, data)

====
